---- MODULE Spec2Model ----
(***************************************************************************)
(* Session and answer engine of the quiz backend: the quiz_sessions,       *)
(* quiz_session_players and quiz_session_answers tables (db_setup.py), the *)
(* store functions over them (db.py) and the HTTP handlers that call them  *)
(* (app.py).                                                               *)
(*                                                                         *)
(* Every store function of db.py runs one SQL statement inside `with con:` *)
(* (commit on success, rollback on an exception), so a handler that makes  *)
(* one store call is one atomic action here.  Answer submission runs       *)
(* several statements in one transaction and is modelled statement by      *)
(* statement, several submissions in flight at once.                       *)
(***************************************************************************)
EXTENDS Integers, Sequences, FiniteSets, TLC

VARIABLES
    sessions,   \* quiz_sessions: id -> row (committed)
    players,    \* quiz_session_players: id -> row (committed)
    answers,    \* quiz_session_answers: id -> row (committed)
    answerSeq,  \* last value drawn from the answers' id sequence
    reqs,       \* answer submissions in flight: slot -> transaction state
    overlap,    \* history: ids of answers whose submission ran while another
                \* submission of the same player was in flight
    now,        \* the store's clock, now()
    resp,       \* the response of the last handler that returned
    conns       \* the number of store connections that are open

vars == <<sessions, players, answers, answerSeq, reqs, overlap, now, resp,
          conns>>

--------------------------------------------------------------------------
(* Bounds of the model *)

MaxSessions == 2
MaxPlayers == 2
MaxAnswers == 2
MaxInflight == 2
MaxTime == 1

--------------------------------------------------------------------------
(* Nullable columns: a sequence holding no value or one *)

Null == <<>>
Some(v) == <<v>>

(* Rows of the tables the engine reads and never writes *)

\* users(id) and quizzes(id): the rows the foreign keys can point at
Users == {1}
Quizzes == {1}

\* quiz_questions: id -> points (INT, nullable, unconstrained)
questions ==
    [q \in 1..4 |-> CASE q = 1 -> Some(2)
                      [] q = 2 -> Some(2)
                      [] q = 3 -> Null
                      [] q = 4 -> Some(-1)]

\* question_answer_options: id -> (question_id, is_correct)
options ==
    <<[question_id |-> 1, is_correct |-> TRUE],
      [question_id |-> 1, is_correct |-> FALSE],
      [question_id |-> 2, is_correct |-> TRUE],
      [question_id |-> 3, is_correct |-> TRUE],
      [question_id |-> 4, is_correct |-> TRUE]>>

(* What callers send *)

UserIdInputs == {1, 2}
QuizIdInputs == {1, 2}
JoinCodeInputs == {"AB12", "CD34", "EF56", "ABCDEFGHIJK"}
StatusInputs == {"waiting", "in_progress", "finished", "paused"}
SentStatusInputs == {"in_progress", "finished"}
NicknameInputs == {"alice", "bob"}
SessionIdInputs == 1..(MaxSessions + 1)
\* Submissions: players 1 and 2 and an id no player has; every option with
\* its own question, an option with another question (both ways), an
\* option id and a question id that do not exist
PlayerIdInputs == {1, 2, 3}
QuestionOptionInputs ==
    {<<options[o].question_id, o>> : o \in DOMAIN options}
        \cup {<<2, 1>>, <<1, 3>>, <<1, 6>>, <<5, 1>>}

--------------------------------------------------------------------------
(* Schema of quiz_sessions *)

DefaultStatusInProgress == "in_progress"

\* status VARCHAR(20) NOT NULL default 'waiting'
DefaultStatus == "waiting"

StatusCheckNoWaiting(status) == status \in {"in_progress", "finished"}

\* CHECK (status IN ('waiting', 'in_progress', 'finished'))
StatusCheck(status) == status \in {"waiting", "in_progress", "finished"}

\* join_code VARCHAR(10), status VARCHAR(20)
JoinCodeFits(join_code) == Len(join_code) <= 10
StatusFits(status) == Len(status) <= 20

\* join_code UNIQUE
JoinCodeFree(join_code) ==
    \A s \in DOMAIN sessions : sessions[s].join_code # join_code

\* BIGSERIAL ids; the value a failed INSERT draws is not modelled
NextId(table) == Cardinality(DOMAIN table) + 1

--------------------------------------------------------------------------
(* Responses *)

Response(op, code, body) == [op |-> op, code |-> code, body |-> body]

--------------------------------------------------------------------------
(* Connections *)

\* con = get_connection(): psycopg2.connect opens one more connection
GetConnection(open) == open + 1

ConCloseOnSuccess(open, raised) == IF raised THEN open ELSE open - 1

\* try: ... finally: con.close(): the handler's connection is closed
\* whether the block returned or raised
ConClose(open, raised) == open - 1

--------------------------------------------------------------------------
(* POST /sessions *)

\* The INSERT of db.create_session names quiz_id, host_id and join_code
\* only: status takes its default, started_at and finished_at stay NULL.
NewSessionRow(quiz_id, host_id, join_code) ==
    [quiz_id |-> quiz_id, host_id |-> host_id, join_code |-> join_code,
     status |-> DefaultStatus, started_at |-> Null, finished_at |-> Null]

\* The constraints the INSERT must meet, else the driver raises
CreateSessionAccepted(quiz_id, host_id, join_code) ==
    /\ quiz_id \in Quizzes
    /\ host_id \in Users
    /\ JoinCodeFits(join_code)
    /\ JoinCodeFree(join_code)

\* The handler catches nothing: a raised store error is a 500.
\* sent_status is a status field in the request body; SessionCreate has no
\* such field and the handler passes three fields on.
CreateSession(quiz_id, host_id, join_code, sent_status) ==
    /\ IF CreateSessionAccepted(quiz_id, host_id, join_code)
       THEN /\ Cardinality(DOMAIN sessions) < MaxSessions
            /\ sessions' = sessions @@
                   (NextId(sessions) :> NewSessionRow(quiz_id, host_id, join_code))
            /\ resp' = Response("create_session", 201, <<NextId(sessions)>>)
            /\ conns' = ConClose(GetConnection(conns), FALSE)
       ELSE /\ sessions' = sessions
            /\ resp' = Response("create_session", 500, <<>>)
            /\ conns' = ConClose(GetConnection(conns), TRUE)
    /\ UNCHANGED <<players, answers, answerSeq, reqs, overlap, now>>

--------------------------------------------------------------------------
(* PATCH /sessions/{session_id}/status *)

FinishedAtCleared(status, old) ==
    IF status = "finished" THEN Some(now) ELSE Null

\* finished_at = CASE WHEN %s = 'finished' THEN now() ELSE finished_at END
FinishedAtCase(status, old) ==
    IF status = "finished" THEN Some(now) ELSE old

UpdatedSessionRowStatusKept(row, status) ==
    [row EXCEPT !.finished_at = FinishedAtCase(status, row.finished_at)]

\* UPDATE quiz_sessions SET status = ..., finished_at = ... WHERE id = ...
UpdatedSessionRow(row, status) ==
    [row EXCEPT !.status = status,
                !.finished_at = FinishedAtCase(status, row.finished_at)]

UpdateStatusCodeAlwaysOk(ok) == 200

\* if not ok: raise HTTPException(status_code=404, ...); return {"ok": True}
UpdateStatusCode(ok) == IF ok THEN 200 ELSE 404

\* db.update_session_status returns whether a row came back; the handler
\* turns False into 404 and catches nothing else.  The CHECK and the
\* column width are tested on the rows the UPDATE writes, so for an id that
\* matches no row any status text returns False.
UpdateSessionStatus(session_id, status) ==
    /\ IF session_id \notin DOMAIN sessions
       THEN /\ sessions' = sessions
            /\ resp' = Response("update_session_status", UpdateStatusCode(FALSE), <<>>)
            /\ conns' = ConClose(GetConnection(conns), TRUE)
       ELSE IF ~(StatusCheck(status) /\ StatusFits(status))
       THEN /\ sessions' = sessions
            /\ resp' = Response("update_session_status", 500, <<>>)
            /\ conns' = ConClose(GetConnection(conns), TRUE)
       ELSE /\ sessions' = [sessions EXCEPT
                               ![session_id] = UpdatedSessionRow(@, status)]
            /\ resp' = Response("update_session_status", UpdateStatusCode(TRUE),
                                <<session_id>>)
            /\ conns' = ConClose(GetConnection(conns), FALSE)
    /\ UNCHANGED <<players, answers, answerSeq, reqs, overlap, now>>

--------------------------------------------------------------------------
(* GET /sessions/{session_id} and GET /sessions/by-code/{join_code} *)

\* SELECT ... FROM quiz_sessions WHERE id = %s; fetchone()
SelectSessionById(session_id) ==
    {s \in DOMAIN sessions : s = session_id}

\* SELECT ... FROM quiz_sessions WHERE join_code = %s; fetchone()
SelectSessionByJoinCode(join_code) ==
    {s \in DOMAIN sessions : sessions[s].join_code = join_code}

\* response_model=SessionOut: started_at is declared `datetime`, a required
\* field that takes no None; finished_at is Optional.  A row that does not
\* validate makes the framework fail the response.
SessionOutValid(row) == row.started_at # Null

\* if not s: raise HTTPException(status_code=404, ...); return s
SessionResponse(op, found) ==
    IF found = {}
    THEN Response(op, 404, <<>>)
    ELSE LET s == CHOOSE x \in found : TRUE
         IN  IF SessionOutValid(sessions[s])
             THEN Response(op, 200, <<s>>)
             ELSE Response(op, 500, <<>>)

GetSession(session_id) ==
    /\ resp' = SessionResponse("get_session", SelectSessionById(session_id))
    /\ conns' = ConClose(GetConnection(conns), resp'.code # 200)
    /\ UNCHANGED <<sessions, players, answers, answerSeq, reqs, overlap, now>>

GetSessionByCode(join_code) ==
    /\ resp' = SessionResponse("get_session_by_code",
                               SelectSessionByJoinCode(join_code))
    /\ conns' = ConClose(GetConnection(conns), resp'.code # 200)
    /\ UNCHANGED <<sessions, players, answers, answerSeq, reqs, overlap, now>>

--------------------------------------------------------------------------
(* POST /session-players *)

\* nickname VARCHAR(50)
NicknameFits(nickname) == Len(nickname) <= 50

NicknameFreeAnywhere(session_id, nickname) ==
    \A p \in DOMAIN players : players[p].nickname # nickname

\* UNIQUE (session_id, nickname)
NicknameFree(session_id, nickname) ==
    \A p \in DOMAIN players :
        ~(players[p].session_id = session_id /\ players[p].nickname = nickname)

\* The INSERT of db.add_session_player names session_id, nickname and
\* user_id: joined_at defaults to now(), score to 0.
NewPlayerRow(session_id, nickname, user_id) ==
    [session_id |-> session_id, user_id |-> user_id, nickname |-> nickname,
     joined_at |-> now, score |-> 0]

\* The constraints the INSERT must meet, else the driver raises
AddPlayerAccepted(session_id, nickname, user_id) ==
    /\ session_id \in DOMAIN sessions
    /\ user_id = Null \/ user_id[1] \in Users
    /\ NicknameFits(nickname)
    /\ NicknameFree(session_id, nickname)

\* except Exception: raise HTTPException(status_code=409, ...)
AddPlayerErrorCode == 409

AddSessionPlayer(session_id, nickname, user_id) ==
    /\ IF AddPlayerAccepted(session_id, nickname, user_id)
       THEN /\ Cardinality(DOMAIN players) < MaxPlayers
            /\ players' = players @@
                   (NextId(players) :> NewPlayerRow(session_id, nickname, user_id))
            /\ resp' = Response("add_session_player", 201, <<NextId(players)>>)
            /\ conns' = ConClose(GetConnection(conns), FALSE)
       ELSE /\ players' = players
            /\ resp' = Response("add_session_player", AddPlayerErrorCode, <<>>)
            /\ conns' = ConClose(GetConnection(conns), TRUE)
    /\ UNCHANGED <<sessions, answers, answerSeq, reqs, overlap, now>>

--------------------------------------------------------------------------
(* GET /sessions/{session_id}/players *)

\* SELECT id, session_id, user_id, nickname, joined_at, score
PlayerOut(p) ==
    [id |-> p,
     session_id |-> players[p].session_id,
     user_id |-> players[p].user_id,
     nickname |-> players[p].nickname,
     joined_at |-> players[p].joined_at,
     score |-> players[p].score]

\* WHERE session_id = %s
SelectSessionPlayers(session_id) ==
    {p \in DOMAIN players : players[p].session_id = session_id}

OrderByJoinedAtOnly(a, b) == a.joined_at <= b.joined_at

\* ORDER BY joined_at ASC, id ASC: row a may come before row b
OrderBy(a, b) ==
    \/ a.joined_at < b.joined_at
    \/ a.joined_at = b.joined_at /\ a.id <= b.id

\* The results the SELECT may give: each selected row once, in an order
\* the ORDER BY allows; rows the ORDER BY does not tell apart come in any
\* order
SelectOrdered(ids) ==
    {rows \in [1..Cardinality(ids) -> {PlayerOut(p) : p \in ids}] :
        /\ \A i, j \in DOMAIN rows : rows[i] = rows[j] => i = j
        /\ \A i, j \in DOMAIN rows : i < j => OrderBy(rows[i], rows[j])}

\* The handler returns fetchall() as it is, an empty list for a session
\* that has no players or does not exist
ListSessionPlayers(session_id) ==
    /\ \E rows \in SelectOrdered(SelectSessionPlayers(session_id)) :
           resp' = Response("list_session_players", 200, rows)
    /\ conns' = ConClose(GetConnection(conns), FALSE)
    /\ UNCHANGED <<sessions, players, answers, answerSeq, reqs, overlap, now>>

--------------------------------------------------------------------------
(* POST /session-answers *)

\* A free slot of the submissions in flight
Idle == [pc |-> "idle"]

InFlight(r) == reqs[r].pc # "idle"

\* Step 2: the option exists and its owning question is the one supplied
ValidOption(question_id, answer_option_id) ==
    /\ answer_option_id \in DOMAIN options
    /\ options[answer_option_id].question_id = question_id

\* Step 4: the question's points, a NULL taken as 0
PointsOrZero(question_id) ==
    IF questions[question_id] = Null THEN 0 ELSE questions[question_id][1]

\* Steps 3 and 4: the option's flag as is; the points if correct, else 0
PointsAwarded(question_id, answer_option_id) ==
    IF options[answer_option_id].is_correct
    THEN PointsOrZero(question_id)
    ELSE 0

\* Step 5: the row INSERTed into quiz_session_answers
NewAnswerRow(session_player_id, question_id, answer_option_id) ==
    [session_player_id |-> session_player_id,
     question_id |-> question_id,
     answer_option_id |-> answer_option_id,
     answered_at |-> now,
     is_correct |-> options[answer_option_id].is_correct,
     points_awarded |-> PointsAwarded(question_id, answer_option_id)]

\* Step 6 runs only for points_awarded > 0
ScoreIsUpdated(row) == row.points_awarded > 0

IncrementPlayerScoreOverwrite(table, player_id, delta) ==
    IF player_id \in DOMAIN table
    THEN [table EXCEPT ![player_id].score = delta]
    ELSE table

IncrementPlayerScoreSubtract(table, player_id, delta) ==
    IF player_id \in DOMAIN table
    THEN [table EXCEPT ![player_id].score = @ - delta]
    ELSE table

IncrementPlayerScoreOnce(table, player_id, delta) ==
    IF player_id \in DOMAIN table /\ table[player_id].score = 0
    THEN [table EXCEPT ![player_id].score = @ + delta]
    ELSE table

\* UPDATE quiz_session_players SET score = score + %s WHERE id = %s:
\* the store adds delta to the row's latest committed score
IncrementPlayerScore(table, player_id, delta) ==
    IF player_id \in DOMAIN table
    THEN [table EXCEPT ![player_id].score = @ + delta]
    ELSE table

RowNeverLocked(player_id) == FALSE

\* The UPDATE holds the player's row until its transaction ends; a second
\* UPDATE of that row waits for it.
RowLocked(player_id) ==
    \E r \in DOMAIN reqs :
        reqs[r].pc = "updated" /\ reqs[r].player = player_id

ConExitAlwaysCommits(committed, written, raised) == written

\* `with con:` at its exit: commit when the block ended normally, roll
\* back when it raised
ConExit(committed, written, raised) ==
    IF raised THEN committed ELSE written

SubmitAnswerCodeNotFound(created) ==
    IF created = Null THEN 404 ELSE 201

\* if not created: raise HTTPException(status_code=400, ...)
SubmitAnswerCode(created) ==
    IF created = Null THEN 400 ELSE 201

\* Steps 1 and 2 reject: the store function returns nothing and writes
\* nothing.
SubmitInvalid(session_player_id, question_id, answer_option_id) ==
    /\ ~ValidOption(question_id, answer_option_id)
    /\ resp' = Response("submit_answer", SubmitAnswerCode(Null), <<>>)
    /\ conns' = ConClose(GetConnection(conns), TRUE)
    /\ UNCHANGED <<sessions, players, answers, answerSeq, reqs, overlap, now>>

\* Steps 1 to 5: the INSERT draws the row's id and checks the foreign key
\* on the player; a missing player raises, and the handler catches nothing.
SubmitInsert(r, session_player_id, question_id, answer_option_id) ==
    /\ ValidOption(question_id, answer_option_id)
    /\ ~InFlight(r)
    /\ \A r2 \in DOMAIN reqs : r2 < r => InFlight(r2)
    /\ answerSeq < MaxAnswers
    /\ answerSeq' = answerSeq + 1
    /\ IF session_player_id \in DOMAIN players
       THEN LET same == {r2 \in DOMAIN reqs :
                            InFlight(r2) /\ reqs[r2].player = session_player_id}
            IN  /\ reqs' = [reqs EXCEPT ![r] =
                       [pc |-> "inserted",
                        player |-> session_player_id,
                        id |-> answerSeq + 1,
                        row |-> NewAnswerRow(session_player_id, question_id,
                                             answer_option_id),
                        score |-> Null]]
                /\ overlap' = IF same = {} THEN overlap
                              ELSE overlap \cup {answerSeq + 1}
                                           \cup {reqs[r2].id : r2 \in same}
                /\ resp' = resp
                /\ conns' = GetConnection(conns)
       ELSE /\ resp' = Response("submit_answer", 500, <<>>)
            /\ conns' = ConClose(GetConnection(conns), TRUE)
            /\ UNCHANGED <<reqs, overlap>>
    /\ UNCHANGED <<sessions, players, answers, now>>

\* Step 6: the score UPDATE, written but not yet committed
SubmitIncrement(r) ==
    /\ reqs[r].pc = "inserted"
    /\ ScoreIsUpdated(reqs[r].row)
    /\ ~RowLocked(reqs[r].player)
    /\ reqs' = [reqs EXCEPT
                   ![r].pc = "updated",
                   ![r].score = Some(IncrementPlayerScore(players, reqs[r].player,
                                    reqs[r].row.points_awarded)[reqs[r].player].score)]
    /\ UNCHANGED <<sessions, players, answers, answerSeq, overlap, now, resp,
                   conns>>

\* What the transaction of slot r has written, over the committed tables
WrittenAnswers(r) == answers @@ (reqs[r].id :> reqs[r].row)

WrittenPlayers(r) ==
    IF reqs[r].score = Null THEN players
    ELSE [players EXCEPT ![reqs[r].player].score = reqs[r].score[1]]

\* The statements are done
SubmitDone(r) ==
    \/ reqs[r].pc = "updated"
    \/ reqs[r].pc = "inserted" /\ ~ScoreIsUpdated(reqs[r].row)

\* Step 7: the transaction ends normally; the handler returns the row
SubmitCommit(r) ==
    /\ SubmitDone(r)
    /\ answers' = ConExit(answers, WrittenAnswers(r), FALSE)
    /\ players' = ConExit(players, WrittenPlayers(r), FALSE)
    /\ reqs' = [reqs EXCEPT ![r] = Idle]
    /\ resp' = Response("submit_answer", SubmitAnswerCode(Some(reqs[r].id)),
                        <<reqs[r].id>>)
    /\ conns' = ConClose(conns, FALSE)
    /\ UNCHANGED <<sessions, answerSeq, overlap, now>>

\* The store fails while the transaction is open (between the writes or
\* at the commit): the block raises, and the handler catches nothing
SubmitFail(r) ==
    /\ InFlight(r)
    /\ answers' = ConExit(answers, WrittenAnswers(r), TRUE)
    /\ players' = ConExit(players, WrittenPlayers(r), TRUE)
    /\ reqs' = [reqs EXCEPT ![r] = Idle]
    /\ resp' = Response("submit_answer", 500, <<>>)
    /\ conns' = ConClose(conns, TRUE)
    /\ UNCHANGED <<sessions, answerSeq, overlap, now>>

--------------------------------------------------------------------------
(* The clock *)

Tick ==
    /\ now < MaxTime
    /\ now' = now + 1
    /\ UNCHANGED <<sessions, players, answers, answerSeq, reqs, overlap, resp,
                   conns>>

--------------------------------------------------------------------------
(* Specifications *)

NoRequests == [r \in 1..MaxInflight |-> Idle]

\* The store as db_setup.create_tables leaves it
Init ==
    /\ sessions = <<>>
    /\ players = <<>>
    /\ answers = <<>>
    /\ answerSeq = 0
    /\ reqs = NoRequests
    /\ overlap = {}
    /\ now = 0
    /\ resp = Response("none", 0, <<>>)
    /\ conns = 0

CreateSessionStep ==
    \E quiz_id \in QuizIdInputs, host_id \in UserIdInputs,
       join_code \in JoinCodeInputs, sent_status \in SentStatusInputs :
        CreateSession(quiz_id, host_id, join_code, sent_status)

UpdateSessionStatusStep ==
    \E session_id \in SessionIdInputs, status \in StatusInputs :
        UpdateSessionStatus(session_id, status)

AddSessionPlayerStep ==
    \E session_id \in SessionIdInputs, nickname \in NicknameInputs,
       user_id \in {Null} \cup {Some(u) : u \in UserIdInputs} :
        AddSessionPlayer(session_id, nickname, user_id)

GetSessionStep ==
    \E session_id \in SessionIdInputs : GetSession(session_id)

GetSessionByCodeStep ==
    \E join_code \in JoinCodeInputs : GetSessionByCode(join_code)

ListSessionPlayersStep ==
    \E session_id \in SessionIdInputs : ListSessionPlayers(session_id)

SubmitAnswerStep ==
    \/ \E p \in PlayerIdInputs, qo \in QuestionOptionInputs :
        SubmitInvalid(p, qo[1], qo[2])
    \/ \E r \in DOMAIN reqs, p \in PlayerIdInputs, qo \in QuestionOptionInputs :
        SubmitInsert(r, p, qo[1], qo[2])
    \/ \E r \in DOMAIN reqs : SubmitIncrement(r)
    \/ \E r \in DOMAIN reqs : SubmitCommit(r)
    \/ \E r \in DOMAIN reqs : SubmitFail(r)

\* The whole engine
Next ==
    \/ CreateSessionStep
    \/ GetSessionStep
    \/ GetSessionByCodeStep
    \/ UpdateSessionStatusStep
    \/ AddSessionPlayerStep
    \/ ListSessionPlayersStep
    \/ SubmitAnswerStep
    \/ Tick

Spec == Init /\ [][Next]_vars

\* The session lifecycle manager: the handlers that write quiz_sessions
NextLifecycle ==
    \/ CreateSessionStep
    \/ UpdateSessionStatusStep
    \/ Tick

SpecLifecycle == Init /\ [][NextLifecycle]_vars

\* Session lookup: sessions are created, moved between statuses and read
NextSessionQueries ==
    \/ CreateSessionStep
    \/ UpdateSessionStatusStep
    \/ GetSessionStep
    \/ GetSessionByCodeStep

SpecSessionQueries == Init /\ [][NextSessionQueries]_vars

\* Player enrollment: sessions are created and players join them
NextEnrollment ==
    \/ CreateSessionStep
    \/ AddSessionPlayerStep

SpecEnrollment == Init /\ [][NextEnrollment]_vars

\* The player list, from a store that holds two sessions: players join
\* them as time passes and the lists are read
InitListing ==
    /\ sessions = (1 :> NewSessionRow(1, 1, "AB12")) @@
                  (2 :> NewSessionRow(1, 1, "CD34"))
    /\ players = <<>>
    /\ answers = <<>>
    /\ answerSeq = 0
    /\ reqs = NoRequests
    /\ overlap = {}
    /\ now = 0
    /\ resp = Response("none", 0, <<>>)
    /\ conns = 0

NextListing ==
    \/ AddSessionPlayerStep
    \/ ListSessionPlayersStep
    \/ Tick

SpecListing == InitListing /\ [][NextListing]_vars

\* Answer scoring, from a store where one session is open and two players
\* have joined it
InitScoring ==
    /\ sessions = (1 :> NewSessionRow(1, 1, "AB12"))
    /\ players = [p \in {1, 2} |->
                     [session_id |-> 1, user_id |-> Null,
                      nickname |-> IF p = 1 THEN "alice" ELSE "bob",
                      joined_at |-> 0, score |-> 0]]
    /\ answers = <<>>
    /\ answerSeq = 0
    /\ reqs = NoRequests
    /\ overlap = {}
    /\ now = 0
    /\ resp = Response("none", 0, <<>>)
    /\ conns = 0

NextScoring == SubmitAnswerStep

SpecScoring == InitScoring /\ [][NextScoring]_vars

\* A game: one session is open and one player has joined it; players join
\* and answers are submitted
InitGame ==
    /\ sessions = (1 :> NewSessionRow(1, 1, "AB12"))
    /\ players = (1 :> [session_id |-> 1, user_id |-> Null,
                        nickname |-> "alice", joined_at |-> 0, score |-> 0])
    /\ answers = <<>>
    /\ answerSeq = 0
    /\ reqs = NoRequests
    /\ overlap = {}
    /\ now = 0
    /\ resp = Response("none", 0, <<>>)
    /\ conns = 0

NextGame ==
    \/ AddSessionPlayerStep
    \/ SubmitAnswerStep

SpecGame == InitGame /\ [][NextGame]_vars

\* Every session, player and answer endpoint, from the store of InitGame,
\* with the requests that take each handler down each of its paths: a join
\* code that is taken and a free one; a session id that exists and one
\* that does not; a declared status and an undeclared one; a nickname that
\* is taken and a free one; a player id that exists and one that does not;
\* an option of its question and an option of another question
NextEndpoints ==
    \/ \E join_code \in {"AB12", "CD34"} :
          CreateSession(1, 1, join_code, "finished")
    \/ \E session_id \in {1, MaxSessions + 1} : GetSession(session_id)
    \/ \E join_code \in {"AB12", "EF56"} : GetSessionByCode(join_code)
    \/ \E session_id \in {1, MaxSessions + 1}, status \in {"finished", "paused"} :
          UpdateSessionStatus(session_id, status)
    \/ \E session_id \in {1, MaxSessions + 1}, nickname \in {"alice", "bob"} :
          AddSessionPlayer(session_id, nickname, Null)
    \/ \E session_id \in {1, MaxSessions + 1} : ListSessionPlayers(session_id)
    \/ \E p \in {1, MaxPlayers + 1} : SubmitInvalid(p, 2, 1)
    \/ \E r \in DOMAIN reqs, p \in {1, MaxPlayers + 1} : SubmitInsert(r, p, 1, 1)
    \/ \E r \in DOMAIN reqs : SubmitIncrement(r)
    \/ \E r \in DOMAIN reqs : SubmitCommit(r)
    \/ \E r \in DOMAIN reqs : SubmitFail(r)

SpecEndpoints == InitGame /\ [][NextEndpoints]_vars

--------------------------------------------------------------------------
(* Session lifecycle *)

ValidStatuses == {"waiting", "in_progress", "finished"}

\* C6: every session that createSession adds has status 'waiting' and a
\* null finished_at as it is added, whatever status the caller sent.
C6_CreatedWaiting ==
    [][\A s \in DOMAIN sessions' \ DOMAIN sessions :
         /\ sessions'[s].status = "waiting"
         /\ sessions'[s].finished_at = Null
         /\ resp' = Response("create_session", 201, <<s>>)]_vars

\* createSession has just added a session: it is waiting, not finished
C6_Witness ==
    /\ resp.op = "create_session"
    /\ resp.code = 201
    /\ sessions[resp.body[1]].status = "waiting"
    /\ sessions[resp.body[1]].finished_at = Null

\* C7: updateStatus on an existing session with a declared status writes
\* that status; finished_at becomes the current time when the target is
\* 'finished' and keeps its previous value for any other target; no other
\* session changes.
C7_UpdateStatusSets ==
    [][resp'.op = "update_session_status" =>
         \A s \in DOMAIN sessions, t \in ValidStatuses :
            UpdateSessionStatus(s, t) =>
                /\ resp'.code = 200
                /\ DOMAIN sessions' = DOMAIN sessions
                /\ sessions'[s].status = t
                /\ sessions'[s].finished_at =
                       IF t = "finished" THEN Some(now)
                       ELSE sessions[s].finished_at
                /\ \A s2 \in DOMAIN sessions \ {s} :
                       sessions'[s2] = sessions[s2]]_vars

\* A session was finished and then moved back: its finished_at is kept
C7_Witness ==
    /\ resp.op = "update_session_status"
    /\ resp.code = 200
    /\ sessions[resp.body[1]].status \in {"waiting", "in_progress"}
    /\ sessions[resp.body[1]].finished_at # Null

\* C8: updateStatus on an existing session with a status outside the
\* declared three ends in an invalid-input (client error) response and
\* leaves the sessions unchanged.
C8_InvalidStatusIsClientError ==
    [][resp'.op = "update_session_status" =>
         \A s \in DOMAIN sessions, t \in StatusInputs \ ValidStatuses :
            UpdateSessionStatus(s, t) =>
                /\ resp'.code \in 400..499
                /\ sessions' = sessions]_vars

\* C9: updateStatus on an id that matches no session answers 404 and
\* changes no session, whatever the status text; an undeclared status on an
\* existing session never answers 404.
C9_UnknownSessionNotFound ==
    [][resp'.op = "update_session_status" =>
         /\ \A s \in SessionIdInputs \ DOMAIN sessions, t \in StatusInputs :
                UpdateSessionStatus(s, t) =>
                    /\ resp'.code = 404
                    /\ sessions' = sessions
         /\ \A s \in DOMAIN sessions, t \in StatusInputs \ ValidStatuses :
                UpdateSessionStatus(s, t) => resp'.code # 404]_vars

\* updateStatus has answered 404 while a session exists
C9_Witness ==
    /\ resp.op = "update_session_status"
    /\ resp.code = 404
    /\ sessions # <<>>

\* C10 as stated: a finished session's status stays 'finished'.
C10_FinishedIsTerminal ==
    [][\A s \in DOMAIN sessions :
         sessions[s].status = "finished" => sessions'[s].status = "finished"]_vars

\* C10 as amended: a finished session's status changes only by an
\* updateStatus call on that session that names the new status, and a
\* finished_at once set is never null again.
C10_FinishedLeftOnlyByUpdate ==
    [][\A s \in DOMAIN sessions :
         /\ s \in DOMAIN sessions'
         /\ sessions[s].finished_at # Null => sessions'[s].finished_at # Null
         /\ (sessions[s].status = "finished" /\ sessions'[s].status # "finished")
                => /\ sessions'[s].status \in {"waiting", "in_progress"}
                   /\ UpdateSessionStatus(s, sessions'[s].status)]_vars

\* A session that was finished is waiting again
C10_Witness ==
    \E s \in DOMAIN sessions :
        /\ sessions[s].status = "waiting"
        /\ sessions[s].finished_at # Null

\* C11: no edge of the status machine is restricted: the store accepts
\* each of the three declared statuses whatever the session's status is,
\* and updateStatus on an existing session in any status s with any
\* declared status t answers 200 and leaves the session in status t, t = s
\* and finished to waiting included.
C11_NoEdgeRestricted ==
    [][/\ \A t \in ValidStatuses : StatusCheck(t) /\ StatusFits(t)
       /\ resp'.op = "update_session_status" =>
            \A s \in DOMAIN sessions, t \in ValidStatuses :
                UpdateSessionStatus(s, t) =>
                    /\ resp' = Response("update_session_status", 200, <<s>>)
                    /\ sessions'[s].status = t]_vars

\* A session that was finished at the current time has been moved back to
\* waiting by the last call
C11_Witness ==
    /\ resp.op = "update_session_status"
    /\ resp.code = 200
    /\ sessions[resp.body[1]].status = "waiting"
    /\ sessions[resp.body[1]].finished_at = Some(now)

UniqueJoinCodes ==
    \A s1, s2 \in DOMAIN sessions :
        sessions[s1].join_code = sessions[s2].join_code => s1 = s2

\* C12 as stated: no two sessions share a join code, and createSession with
\* an existing quiz and host and a join code that a session already holds
\* ends in a conflict response (409) and adds no session.
C12_DuplicateJoinCodeConflict ==
    [][/\ UniqueJoinCodes'
       /\ resp'.op = "create_session" =>
            \A q \in Quizzes, h \in Users, j \in JoinCodeInputs,
               st \in SentStatusInputs :
                (~JoinCodeFree(j) /\ CreateSession(q, h, j, st)) =>
                    /\ resp'.code = 409
                    /\ sessions' = sessions]_vars

\* C14 as stated: getSession answers with the session whenever a session
\* has the id, whatever state the session is in (a null started_at
\* included), and with 404 exactly when none has; getSessionByJoinCode the
\* same by join code.
C14_LookupReturnsSession ==
    [][/\ resp'.op = "get_session" =>
            \A s \in SessionIdInputs :
                GetSession(s) =>
                    IF s \in DOMAIN sessions
                    THEN resp'.code = 200 /\ resp'.body = <<s>>
                    ELSE resp'.code = 404
       /\ resp'.op = "get_session_by_code" =>
            \A j \in JoinCodeInputs :
                GetSessionByCode(j) =>
                    IF \E s \in DOMAIN sessions : sessions[s].join_code = j
                    THEN /\ resp'.code = 200
                         /\ sessions[resp'.body[1]].join_code = j
                    ELSE resp'.code = 404]_vars

--------------------------------------------------------------------------
(* Player enrollment *)

UniqueNicknames ==
    \A p1, p2 \in DOMAIN players :
        (/\ players[p1].session_id = players[p2].session_id
         /\ players[p1].nickname = players[p2].nickname) => p1 = p2

NicknameTaken(session_id, nickname) ==
    \E p \in DOMAIN players :
        players[p].session_id = session_id /\ players[p].nickname = nickname

\* C5: no two players of one session share a nickname; addPlayer with a
\* nickname the session already holds answers 409 and adds no player;
\* addPlayer into an existing session that does not hold the nickname (also
\* when another session holds it) adds the player.
C5_NicknameUniquePerSession ==
    [][/\ UniqueNicknames'
       /\ (resp'.op = "add_session_player" /\ UNCHANGED <<sessions, now>>) =>
            \A s \in SessionIdInputs, n \in NicknameInputs,
               u \in {Null} \cup {Some(x) : x \in UserIdInputs} :
                AddSessionPlayer(s, n, u) =>
                    /\ NicknameTaken(s, n) =>
                           resp'.code = 409 /\ players' = players
                    /\ (/\ s \in DOMAIN sessions
                        /\ ~NicknameTaken(s, n)
                        /\ u = Null \/ u[1] \in Users) =>
                           /\ resp'.code = 201
                           /\ DOMAIN players' = DOMAIN players \cup {resp'.body[1]}
                           /\ resp'.body[1] \notin DOMAIN players
                           /\ players'[resp'.body[1]].session_id = s
                           /\ players'[resp'.body[1]].nickname = n
                           /\ \A p \in DOMAIN players :
                                  players'[p] = players[p]]_vars

\* The same nickname is held in two sessions, and a further addPlayer was
\* answered 409
C5_Witness ==
    /\ resp.op = "add_session_player"
    /\ resp.code = 409
    /\ \E p1, p2 \in DOMAIN players :
        /\ players[p1].nickname = players[p2].nickname
        /\ players[p1].session_id # players[p2].session_id

\* C13 as stated: every player references an existing session, and
\* addPlayer with a session id that matches no session ends in a not-found
\* or invalid-input response, not in a conflict (409), and adds no player.
C13_UnknownSessionNotConflict ==
    [][/\ \A p \in DOMAIN players' : players'[p].session_id \in DOMAIN sessions'
       /\ resp'.op = "add_session_player" =>
            \A s \in SessionIdInputs \ DOMAIN sessions, n \in NicknameInputs,
               u \in {Null} \cup {Some(x) : x \in UserIdInputs} :
                AddSessionPlayer(s, n, u) =>
                    /\ resp'.code \in (400..499) \ {409}
                    /\ players' = players]_vars

\* C15: listPlayers(s) answers 200 with the players of session s and no
\* others, each once and as stored, by joined_at ascending and, where
\* joined_at is equal, by id ascending; the state allows one result only, so
\* two calls on the same state give the same sequence.
C15_ListOrdered ==
    [][resp'.op = "list_session_players" =>
         \A s \in SessionIdInputs :
            ListSessionPlayers(s) =>
                LET rows == resp'.body
                    of_s == {p \in DOMAIN players : players[p].session_id = s}
                IN  /\ resp'.code = 200
                    /\ {rows[i].id : i \in DOMAIN rows} = of_s
                    /\ Len(rows) = Cardinality(of_s)
                    /\ \A i \in DOMAIN rows :
                           /\ rows[i].nickname = players[rows[i].id].nickname
                           /\ rows[i].joined_at = players[rows[i].id].joined_at
                           /\ rows[i].score = players[rows[i].id].score
                    /\ \A i, j \in DOMAIN rows :
                           i < j =>
                               \/ rows[i].joined_at < rows[j].joined_at
                               \/ /\ rows[i].joined_at = rows[j].joined_at
                                  /\ rows[i].id < rows[j].id
                    /\ SelectOrdered(SelectSessionPlayers(s)) = {rows}
                    /\ players' = players]_vars

\* A list of two players who joined at the same time has been returned, the
\* lower id first
C15_Witness ==
    /\ resp.op = "list_session_players"
    /\ Len(resp.body) = 2
    /\ resp.body[1].joined_at = resp.body[2].joined_at
    /\ resp.body[1].id < resp.body[2].id

--------------------------------------------------------------------------
(* Answer scoring *)

\* An option of the question, as the claims put it
OptionOf(q, o) == o \in DOMAIN options /\ options[o].question_id = q

\* The points a question is worth, a null taken as 0
ConfiguredPoints(q) == IF questions[q] = Null THEN 0 ELSE questions[q][1]

\* What a submission of option o against question q is to be awarded
ExpectedAward(q, o) == IF options[o].is_correct THEN ConfiguredPoints(q) ELSE 0

\* The engine's test of a submission accepts exactly the options of the
\* question: no such submission is answered 400, no other is taken up
ValidationMatches ==
    \A qo \in QuestionOptionInputs :
        ValidOption(qo[1], qo[2]) <=> OptionOf(qo[1], qo[2])

\* The submission a slot takes up is the one that was sent
TakenUpAsSent ==
    \A r \in DOMAIN reqs :
        (~InFlight(r) /\ reqs'[r].pc # "idle") =>
            /\ reqs'[r].pc = "inserted"
            /\ reqs'[r].player = reqs'[r].row.session_player_id
            /\ reqs'[r].player \in DOMAIN players
            /\ OptionOf(reqs'[r].row.question_id, reqs'[r].row.answer_option_id)
            /\ SubmitInsert(r, reqs'[r].row.session_player_id,
                            reqs'[r].row.question_id,
                            reqs'[r].row.answer_option_id)

\* The record a completed submission returns and stores
RecordAsScored(r) ==
    LET row == reqs[r].row
    IN  /\ resp'.code = 201
        /\ resp'.body = <<reqs[r].id>>
        /\ reqs[r].id \notin DOMAIN answers
        /\ DOMAIN answers' = DOMAIN answers \cup {reqs[r].id}
        /\ answers'[reqs[r].id] = row
        /\ row.is_correct = options[row.answer_option_id].is_correct
        /\ row.points_awarded = ExpectedAward(row.question_id, row.answer_option_id)
        /\ \A p \in DOMAIN players \ {row.session_player_id} :
               players'[p] = players[p]

\* C1 as stated: a submission of an existing player with an option of the
\* question completes with a record whose is_correct is the option's flag
\* and whose points_awarded is the question's points (0 for null) if the
\* option is correct, else 0, and the player's score grows by exactly
\* points_awarded.
C1_ScoreGrowsByAward ==
    [][/\ ValidationMatches
       /\ TakenUpAsSent
       /\ \A r \in DOMAIN reqs :
            SubmitCommit(r) =>
                /\ RecordAsScored(r)
                /\ players'[reqs[r].player].score =
                       players[reqs[r].player].score + reqs[r].row.points_awarded]_vars

\* C1 as amended: the same, with the score growing by points_awarded when
\* that is positive and unchanged otherwise (an incorrect option, or a
\* correct one of a question worth null, zero or negative points).
C1_ScoreGrowsByPositiveAward ==
    [][/\ ValidationMatches
       /\ TakenUpAsSent
       /\ \A r \in DOMAIN reqs :
            SubmitCommit(r) =>
                /\ RecordAsScored(r)
                /\ players'[reqs[r].player].score =
                       players[reqs[r].player].score +
                           (IF reqs[r].row.points_awarded > 0
                            THEN reqs[r].row.points_awarded ELSE 0)]_vars

\* A player holds a correct answer worth 2 points and an incorrect one, and
\* the score is 2
C1_Witness ==
    /\ resp.op = "submit_answer"
    /\ resp.code = 201
    /\ \E a1, a2 \in DOMAIN answers :
        /\ answers[a1].session_player_id = answers[a2].session_player_id
        /\ answers[a1].is_correct /\ answers[a1].points_awarded = 2
        /\ ~answers[a2].is_correct /\ answers[a2].points_awarded = 0
        /\ players[answers[a1].session_player_id].score = 2

\* C2: a submission whose option does not exist or belongs to another
\* question is answered 400, is never taken up, and writes no answer and
\* no score.
C2_InvalidOptionRejected ==
    [][/\ ValidationMatches
       /\ (resp'.op = "submit_answer" /\ resp'.body = <<>>) =>
            \A p \in PlayerIdInputs, qo \in QuestionOptionInputs :
                SubmitInvalid(p, qo[1], qo[2]) =>
                    /\ ~OptionOf(qo[1], qo[2])
                    /\ resp'.code = 400
                    /\ answers' = answers
                    /\ players' = players
                    /\ answerSeq' = answerSeq
                    /\ reqs' = reqs]_vars

\* A submission was answered 400 while an answer and a score stand
C2_Witness ==
    /\ resp.op = "submit_answer"
    /\ resp.code = 400
    /\ \E a \in DOMAIN answers :
        players[answers[a].session_player_id].score > 0

RECURSIVE SumAwarded(_, _)
\* The positive points_awarded of player p's committed answers among ids
SumAwarded(p, ids) ==
    IF ids = {} THEN 0
    ELSE LET a == CHOOSE x \in ids : TRUE
         IN  (IF answers[a].session_player_id = p /\ answers[a].points_awarded > 0
              THEN answers[a].points_awarded ELSE 0)
             + SumAwarded(p, ids \ {a})

AnswersOf(p) == {a \in DOMAIN answers : answers[a].session_player_id = p}

\* C4: when no submission of a player is in flight and the player's N
\* committed answers are correct ones of N distinct questions worth P > 0
\* each, the player's score is N * P.
C4_NoLostIncrement ==
    \A p \in DOMAIN players, P \in 1..2 :
        (/\ \A r \in DOMAIN reqs : InFlight(r) => reqs[r].player # p
         /\ \A a \in AnswersOf(p) :
                answers[a].is_correct /\ answers[a].points_awarded = P
         /\ \A a1, a2 \in AnswersOf(p) :
                answers[a1].question_id = answers[a2].question_id => a1 = a2)
        => players[p].score = Cardinality(AnswersOf(p)) * P

\* Two correct submissions of one player for two questions ran at the same
\* time and both completed
C4_Witness ==
    \E p \in DOMAIN players, a1, a2 \in DOMAIN answers :
        /\ \A r \in DOMAIN reqs : ~InFlight(r)
        /\ a1 # a2 /\ {a1, a2} \subseteq overlap
        /\ AnswersOf(p) = {a1, a2}
        /\ answers[a1].question_id # answers[a2].question_id
        /\ answers[a1].points_awarded = 2 /\ answers[a2].points_awarded = 2
        /\ players[p].score = 4

--------------------------------------------------------------------------
(* Scores over a game *)

\* C16: a player that addPlayer adds has score 0 as it is added, and no
\* step of the engine removes a player or lowers a player's score.
C16_ScoreStartsAtZeroNeverDecreases ==
    [][/\ \A p \in DOMAIN players :
            /\ p \in DOMAIN players'
            /\ players'[p].score >= players[p].score
       /\ \A p \in DOMAIN players' \ DOMAIN players :
            /\ players'[p].score = 0
            /\ resp' = Response("add_session_player", 201, <<p>>)]_vars

\* A player has just joined with score 0 while another player has scored
\* and an answer with negative points_awarded stands
C16_Witness ==
    /\ resp.op = "add_session_player"
    /\ resp.code = 201
    /\ players[resp.body[1]].score = 0
    /\ \E p \in DOMAIN players : players[p].score > 0
    /\ \E a \in DOMAIN answers : answers[a].points_awarded < 0

\* A player's committed answers are all submissions of option o against
\* question q, and none of the player's submissions is in flight
OnlyAnswered(p, q, o) ==
    /\ \A r \in DOMAIN reqs : InFlight(r) => reqs[r].player # p
    /\ \A a \in AnswersOf(p) :
           answers[a].question_id = q /\ answers[a].answer_option_id = o

\* C17 as stated: when a player's k committed answers are all submissions
\* of one correct option of one question, the player's score is k times the
\* question's points (0 for null).
C17_ResubmissionScoresPoints ==
    \A p \in DOMAIN players, q \in DOMAIN questions, o \in DOMAIN options :
        (OptionOf(q, o) /\ options[o].is_correct /\ OnlyAnswered(p, q, o))
        => players[p].score = Cardinality(AnswersOf(p)) * ConfiguredPoints(q)

\* C17 as amended: the same, with the score k times the question's points
\* when the points are positive and 0 otherwise; k submissions leave k
\* records whatever the points are.
C17_ResubmissionScoresPositivePoints ==
    \A p \in DOMAIN players, q \in DOMAIN questions, o \in DOMAIN options :
        (OptionOf(q, o) /\ options[o].is_correct /\ OnlyAnswered(p, q, o))
        => /\ players[p].score =
                  Cardinality(AnswersOf(p)) *
                      (IF ConfiguredPoints(q) > 0 THEN ConfiguredPoints(q) ELSE 0)
           /\ \A a \in AnswersOf(p) :
                  /\ answers[a].is_correct
                  /\ answers[a].points_awarded = ConfiguredPoints(q)

\* The same correct option of the same question was submitted twice for one
\* player: two records stand and the score is twice the question's points
C17_Witness ==
    \E p \in DOMAIN players, a1, a2 \in DOMAIN answers :
        /\ a1 # a2
        /\ AnswersOf(p) = {a1, a2}
        /\ OnlyAnswered(p, answers[a1].question_id, answers[a1].answer_option_id)
        /\ answers[a1].is_correct
        /\ answers[a1].points_awarded = 2
        /\ players[p].score = 4

--------------------------------------------------------------------------
(* Connections and transactions *)

\* The submissions that are running
Running(rs) == {r \in DOMAIN rs : rs[r].pc # "idle"}

\* C18: after every step the open connections are those of the
\* submissions still running, one each: a handler that has returned,
\* with a result, a not-found or an error, has closed its connection; and a
\* step that ends a request in an error response leaves the committed
\* sessions, players and answers as they were.
C18_ConnectionsClosedNoPartialWrite ==
    [][/\ conns' = Cardinality(Running(reqs'))
       /\ resp'.code >= 400 =>
            /\ sessions' = sessions
            /\ players' = players
            /\ answers' = answers]_vars

\* A submission has ended in an error and left no answer, another one is
\* still running, and one connection is open
C18_Witness ==
    /\ resp.op = "submit_answer"
    /\ resp.code = 500
    /\ answerSeq > Cardinality(DOMAIN answers) + Cardinality(Running(reqs))
    /\ Cardinality(Running(reqs)) = 1
    /\ conns = 1

====
